---- MODULE Spec2Model ----
(***************************************************************************)
(* Fair Weather: the scoring engine (src/lib/scoring.ts) and the           *)
(* monitoring actor ScheduledRun (durable-objects/scheduled-run.ts).       *)
(*                                                                         *)
(* Numbers.  JavaScript numbers are modelled exactly: a number is a        *)
(* rational [n |-> numerator, d |-> denominator > 0].  Composite scores    *)
(* have one decimal and are carried as integers in tenths (805 = 80.5).    *)
(* Times.  An ISO string "YYYY-MM-DDTHH:MM" is the record                  *)
(* [d |-> day number, h |-> hour, m |-> minute]; instants are              *)
(* milliseconds since day 0, 00:00 (the runtime parses in UTC).            *)
(***************************************************************************)
EXTENDS Integers, Sequences, FiniteSets, TLC

\* ------------------------------------------------------------------------
\* Exact arithmetic on JavaScript numbers
\* ------------------------------------------------------------------------
Abs(x) == IF x < 0 THEN -x ELSE x

RECURSIVE Gcd(_, _)
Gcd(a, b) == IF b = 0 THEN a ELSE Gcd(b, a % b)

Rat(n, d) ==
    LET g == Gcd(Abs(n), d)
    IN  IF g = 0 THEN [n |-> 0, d |-> 1] ELSE [n |-> n \div g, d |-> d \div g]

R(i) == [n |-> i, d |-> 1]

RAdd(a, b) == Rat(a.n * b.d + b.n * a.d, a.d * b.d)
RSub(a, b) == Rat(a.n * b.d - b.n * a.d, a.d * b.d)
RMul(a, b) == Rat(a.n * b.n, a.d * b.d)
\* a / b for b > 0
RDiv(a, b) == Rat(a.n * b.d, a.d * b.n)
RLe(a, b)  == a.n * b.d <= b.n * a.d
RLt(a, b)  == a.n * b.d <  b.n * a.d
RMax(a, b) == IF RLe(a, b) THEN b ELSE a
RMin(a, b) == IF RLe(a, b) THEN a ELSE b

\* Math.round: the nearest integer, halves towards +infinity
MathRound(a) == (2 * a.n + a.d) \div (2 * a.d)

\* ------------------------------------------------------------------------
\* Time strings and instants
\* ------------------------------------------------------------------------
MsPerMinute == 60 * 1000
MsPerHour   == 60 * 60 * 1000
MsPerDay    == 24 * 60 * 60 * 1000

Iso(d, h, m) == [d |-> d, h |-> h, m |-> m]

\* new Date(iso).getTime()
getTime(iso) == ((iso.d * 24 + iso.h) * 60 + iso.m) * MsPerMinute

\* new Date(ms).toISOString(), to the minute
toISOString(ms) ==
    [d |-> ms \div MsPerDay,
     h |-> (ms % MsPerDay) \div MsPerHour,
     m |-> (ms % MsPerHour) \div MsPerMinute]

\* iso.slice(0, 13): "YYYY-MM-DDTHH"
HourKey(iso) == <<iso.d, iso.h>>
\* iso.slice(0, 10): "YYYY-MM-DD"
DateKey(iso) == iso.d

\* ------------------------------------------------------------------------
\* Curve interpolator
\* ------------------------------------------------------------------------
clamp(v) == RMax(R(0), RMin(R(100), v))

\* the first segment i with bp[i].x <= value <= bp[i+1].x, or 0 when none
RECURSIVE FindSegment(_, _, _)
FindSegment(value, bp, i) ==
    IF i > Len(bp) - 1 THEN 0
    ELSE IF RLe(R(bp[i][1]), value) /\ RLe(value, R(bp[i + 1][1])) THEN i
    ELSE FindSegment(value, bp, i + 1)

\* mutant: a value inside a segment gets the segment's first output
interpolateStep(value, bp) ==
    IF RLe(value, R(bp[1][1])) THEN R(bp[1][2])
    ELSE IF RLe(R(bp[Len(bp)][1]), value) THEN R(bp[Len(bp)][2])
    ELSE LET i == FindSegment(value, bp, 1)
         IN  IF i = 0 THEN R(bp[Len(bp)][2]) ELSE R(bp[i][2])

interpolate(value, bp) ==
    IF RLe(value, R(bp[1][1])) THEN R(bp[1][2])
    ELSE IF RLe(R(bp[Len(bp)][1]), value) THEN R(bp[Len(bp)][2])
    ELSE LET i == FindSegment(value, bp, 1)
         IN  IF i = 0 THEN R(bp[Len(bp)][2])
             ELSE LET x0 == bp[i][1]
                      y0 == bp[i][2]
                      x1 == bp[i + 1][1]
                      y1 == bp[i + 1][2]
                      t  == IF x1 # x0 THEN RDiv(RSub(value, R(x0)), R(x1 - x0))
                                       ELSE R(0)
                  IN  RAdd(R(y0), RMul(t, R(y1 - y0)))

\* ------------------------------------------------------------------------
\* Per-metric curves (breakpoint tables <<input, output>>)
\* ------------------------------------------------------------------------
scoreTempRunning(v) ==
    clamp(interpolate(v, << <<10, 0>>, <<20, 15>>, <<30, 45>>, <<40, 75>>, <<50, 100>>, <<60, 100>>, <<70, 75>>, <<80, 45>>, <<90, 15>>, <<100, 0>> >>))

scoreTempWalking(v) ==
    clamp(interpolate(v, << <<15, 0>>, <<25, 10>>, <<35, 30>>, <<45, 60>>, <<55, 100>>, <<70, 100>>, <<80, 70>>, <<85, 45>>, <<95, 15>>, <<105, 0>> >>))

scoreHumidity(v) ==
    clamp(interpolate(v, << <<0, 70>>, <<30, 100>>, <<50, 100>>, <<65, 75>>, <<80, 45>>, <<85, 15>>, <<100, 0>> >>))

scoreUV(v) ==
    clamp(interpolate(v, << <<0, 100>>, <<2, 100>>, <<5, 75>>, <<7, 45>>, <<8, 15>>, <<11, 0>> >>))

scoreWindRunning(v) ==
    clamp(interpolate(v, << <<0, 100>>, <<8, 100>>, <<15, 75>>, <<25, 45>>, <<35, 15>>, <<50, 0>> >>))

scoreWindWalking(v) ==
    clamp(interpolate(v, << <<0, 100>>, <<6, 100>>, <<12, 75>>, <<20, 45>>, <<30, 15>>, <<45, 0>> >>))

scoreTempCycling(v) ==
    clamp(interpolate(v, << <<15, 0>>, <<25, 10>>, <<35, 30>>, <<45, 60>>, <<55, 100>>, <<75, 100>>, <<85, 65>>, <<90, 40>>, <<100, 10>>, <<110, 0>> >>))

scoreWindCycling(v) ==
    clamp(interpolate(v, << <<0, 100>>, <<5, 100>>, <<8, 80>>, <<12, 55>>, <<15, 35>>, <<18, 20>>, <<22, 8>>, <<30, 0>> >>))

scorePrecip(v) ==
    clamp(interpolate(v, << <<0, 100>>, <<5, 100>>, <<15, 80>>, <<30, 55>>, <<50, 30>>, <<70, 12>>, <<100, 0>> >>))

scorePrecipCycling(v) ==
    clamp(interpolate(v, << <<0, 100>>, <<5, 100>>, <<20, 70>>, <<40, 35>>, <<60, 15>>, <<80, 5>>, <<100, 0>> >>))

scoreTempStargazing(v) ==
    clamp(interpolate(v, << <<0, 0>>, <<15, 10>>, <<25, 30>>, <<35, 60>>, <<45, 90>>, <<55, 100>>, <<65, 100>>, <<75, 85>>, <<85, 50>>, <<95, 20>>, <<105, 0>> >>))

scoreWindStargazing(v) ==
    clamp(interpolate(v, << <<0, 100>>, <<5, 100>>, <<10, 85>>, <<15, 60>>, <<20, 35>>, <<25, 15>>, <<35, 0>> >>))

scoreHumidityStargazing(v) ==
    clamp(interpolate(v, << <<0, 100>>, <<30, 100>>, <<50, 90>>, <<60, 70>>, <<70, 50>>, <<80, 25>>, <<90, 10>>, <<100, 0>> >>))

scoreCloudCover(v) ==
    clamp(interpolate(v, << <<0, 100>>, <<10, 95>>, <<20, 80>>, <<30, 60>>, <<50, 35>>, <<70, 15>>, <<85, 5>>, <<100, 0>> >>))

scoreVisibility(v) ==
    clamp(interpolate(v, << <<1000, 0>>, <<5000, 30>>, <<10000, 60>>, <<20000, 85>>, <<40000, 100>>, <<100000, 100>> >>))

scoreTempDogWalking(v) ==
    clamp(interpolate(v, << <<10, 5>>, <<20, 20>>, <<30, 45>>, <<40, 70>>, <<50, 100>>, <<65, 100>>, <<75, 70>>, <<82, 40>>, <<90, 10>>, <<100, 0>> >>))

scoreUVDogWalking(v) ==
    clamp(interpolate(v, << <<0, 100>>, <<2, 100>>, <<4, 75>>, <<6, 40>>, <<8, 10>>, <<10, 0>> >>))

scorePavement(v) ==
    clamp(interpolate(v, << <<30, 60>>, <<40, 80>>, <<50, 100>>, <<77, 100>>, <<100, 65>>, <<115, 35>>, <<125, 10>>, <<135, 0>> >>))

\* weather-code score tables
WEATHER_CODE_SCORES ==
    (0 :> 100) @@ (1 :> 95) @@ (2 :> 90) @@ (3 :> 75) @@ (45 :> 55) @@
    (48 :> 50) @@ (51 :> 35) @@ (53 :> 25) @@ (55 :> 15) @@ (56 :> 2) @@
    (57 :> 0) @@ (61 :> 15) @@ (63 :> 8) @@ (65 :> 2) @@ (66 :> 0) @@
    (67 :> 0) @@ (71 :> 15) @@ (73 :> 5) @@ (75 :> 2) @@ (77 :> 8) @@
    (80 :> 15) @@ (81 :> 8) @@ (82 :> 2) @@ (85 :> 8) @@ (86 :> 2) @@
    (95 :> 5) @@ (96 :> 0) @@ (99 :> 0)

WEATHER_CODE_SCORES_CYCLING ==
    (0 :> 100) @@ (1 :> 95) @@ (2 :> 90) @@ (3 :> 75) @@ (45 :> 15) @@
    (48 :> 10) @@ (51 :> 35) @@ (53 :> 25) @@ (55 :> 15) @@ (56 :> 2) @@
    (57 :> 0) @@ (61 :> 15) @@ (63 :> 8) @@ (65 :> 3) @@ (66 :> 0) @@
    (67 :> 0) @@ (71 :> 20) @@ (73 :> 8) @@ (75 :> 0) @@ (77 :> 10) @@
    (80 :> 15) @@ (81 :> 8) @@ (82 :> 3) @@ (85 :> 10) @@ (86 :> 2) @@
    (95 :> 3) @@ (96 :> 0) @@ (99 :> 0)

WEATHER_CODE_SCORES_STARGAZING ==
    (0 :> 100) @@ (1 :> 90) @@ (2 :> 60) @@ (3 :> 20) @@ (45 :> 5) @@
    (48 :> 5) @@ (51 :> 5) @@ (53 :> 2) @@ (55 :> 0) @@ (56 :> 0) @@
    (57 :> 0) @@ (61 :> 2) @@ (63 :> 0) @@ (65 :> 0) @@ (66 :> 0) @@
    (67 :> 0) @@ (71 :> 5) @@ (73 :> 2) @@ (75 :> 0) @@ (77 :> 2) @@
    (80 :> 5) @@ (81 :> 2) @@ (82 :> 0) @@ (85 :> 2) @@ (86 :> 0) @@
    (95 :> 0) @@ (96 :> 0) @@ (99 :> 0)

WEATHER_CODE_SCORES_DOG_WALKING ==
    (0 :> 100) @@ (1 :> 95) @@ (2 :> 90) @@ (3 :> 75) @@ (45 :> 55) @@
    (48 :> 50) @@ (51 :> 35) @@ (53 :> 25) @@ (55 :> 15) @@ (56 :> 0) @@
    (57 :> 0) @@ (61 :> 15) @@ (63 :> 8) @@ (65 :> 2) @@ (66 :> 0) @@
    (67 :> 0) @@ (71 :> 5) @@ (73 :> 0) @@ (75 :> 0) @@ (77 :> 2) @@
    (80 :> 15) @@ (81 :> 8) @@ (82 :> 2) @@ (85 :> 2) @@ (86 :> 0) @@
    (95 :> 5) @@ (96 :> 0) @@ (99 :> 0)

scoreWeatherCode(c) ==
    IF c \in DOMAIN WEATHER_CODE_SCORES THEN WEATHER_CODE_SCORES[c] ELSE 50
scoreWeatherCodeCycling(c) ==
    IF c \in DOMAIN WEATHER_CODE_SCORES_CYCLING
    THEN WEATHER_CODE_SCORES_CYCLING[c] ELSE 50
scoreWeatherCodeStargazing(c) ==
    IF c \in DOMAIN WEATHER_CODE_SCORES_STARGAZING
    THEN WEATHER_CODE_SCORES_STARGAZING[c] ELSE 50
scoreWeatherCodeDogWalking(c) ==
    IF c \in DOMAIN WEATHER_CODE_SCORES_DOG_WALKING
    THEN WEATHER_CODE_SCORES_DOG_WALKING[c] ELSE 50

\* mutant: the weights of the running, walking and cycling modes sum to 1.2
WEIGHTS_HEAVY ==
    << <<"temperature", 25>>, <<"feels_like", 20>>, <<"humidity", 15>>,
       <<"uv_index", 10>>, <<"wind_speed", 10>>,
       <<"precipitation_probability", 10>>, <<"weather_code", 30>> >>

\* weight tables in key order, <<key, weight in hundredths>>
WEIGHTS ==
    << <<"temperature", 25>>, <<"feels_like", 20>>, <<"humidity", 15>>,
       <<"uv_index", 10>>, <<"wind_speed", 10>>,
       <<"precipitation_probability", 10>>, <<"weather_code", 10>> >>

WEIGHTS_DOG_WALKING ==
    << <<"temperature", 15>>, <<"feels_like", 10>>,
       <<"pavement_temperature", 20>>, <<"humidity", 10>>,
       <<"uv_index", 15>>, <<"wind_speed", 5>>,
       <<"precipitation_probability", 10>>, <<"weather_code", 15>> >>

WEIGHTS_STARGAZING ==
    << <<"cloud_cover", 35>>, <<"weather_code", 15>>, <<"temperature", 15>>,
       <<"wind_speed", 10>>, <<"humidity", 10>>,
       <<"precipitation_probability", 10>>, <<"visibility", 5>> >>

Modes == {"running", "walking", "cycling", "stargazing", "dog_walking"}

\* ------------------------------------------------------------------------
\* Daylight model
\* ------------------------------------------------------------------------
twilight == 30 * 60 * 1000

\* mutant: the first record is taken whatever its date
FindDayFirst(dailyList, dateStr, i) == IF Len(dailyList) = 0 THEN 0 ELSE 1

\* dailyList.find(d => d.date === dateStr): the index of the first match, or 0
RECURSIVE FindDay(_, _, _)
FindDay(dailyList, dateStr, i) ==
    IF i > Len(dailyList) THEN 0
    ELSE IF dailyList[i].date = dateStr THEN i
    ELSE FindDay(dailyList, dateStr, i + 1)

computeDarkness(hourISO, dailyList) ==
    LET k == FindDay(dailyList, DateKey(hourISO), 1)
    IN  IF k = 0 THEN [is_daylight |-> FALSE, daylight_factor |-> Rat(5, 100)]
        ELSE
        LET sr == getTime(dailyList[k].sunrise)
            ss == getTime(dailyList[k].sunset)
            ht == getTime(hourISO)
        IN  IF ht > ss + twilight \/ ht < sr - twilight
            THEN [is_daylight |-> FALSE, daylight_factor |-> R(1)]
            ELSE IF (ht >= ss /\ ht <= ss + twilight)
                    \/ (ht >= sr - twilight /\ ht <= sr)
            THEN [is_daylight |-> FALSE, daylight_factor |-> Rat(3, 10)]
            ELSE IF (ht >= sr /\ ht <= sr + twilight)
                    \/ (ht >= ss - twilight /\ ht <= ss)
            THEN [is_daylight |-> TRUE, daylight_factor |-> Rat(3, 10)]
            ELSE [is_daylight |-> TRUE, daylight_factor |-> Rat(5, 100)]

computeDaylight(hourISO, dailyList) ==
    LET k == FindDay(dailyList, DateKey(hourISO), 1)
    IN  IF k = 0 THEN [is_daylight |-> TRUE, daylight_factor |-> R(1)]
        ELSE
        LET sr == getTime(dailyList[k].sunrise)
            ss == getTime(dailyList[k].sunset)
            ht == getTime(hourISO)
        IN  IF ht >= sr /\ ht <= ss
            THEN IF (ht - sr) < twilight \/ (ss - ht) < twilight
                 THEN [is_daylight |-> TRUE, daylight_factor |-> Rat(6, 10)]
                 ELSE [is_daylight |-> TRUE, daylight_factor |-> R(1)]
            ELSE IF ht < sr /\ (sr - ht) <= twilight
            THEN [is_daylight |-> FALSE, daylight_factor |-> Rat(6, 10)]
            ELSE IF ht > ss /\ (ht - ss) <= twilight
            THEN [is_daylight |-> FALSE, daylight_factor |-> Rat(6, 10)]
            ELSE [is_daylight |-> FALSE, daylight_factor |-> Rat(3, 10)]

\* ------------------------------------------------------------------------
\* Mode scorer
\* ------------------------------------------------------------------------
\* h.cloud_cover ?? dflt, h.visibility ?? dflt: an absent field is undefined
OrDefault(h, field, dflt) == IF field \in DOMAIN h THEN h[field] ELSE dflt

estimatePavementTemp(airTempF, uvIndex, h) ==
    LET maxBoost == 50
        boost == RMul(RMul(RDiv(R(uvIndex), R(11)),
                           RSub(R(1), RDiv(R(OrDefault(h, "cloud_cover", 50)),
                                           R(100)))),
                      R(maxBoost))
    IN  RAdd(R(airTempF), boost)

\* composite += sub[k] * W[k], over the keys of W in order
RECURSIVE WeightedSum(_, _, _)
WeightedSum(sub, W, i) ==
    IF i > Len(W) THEN R(0)
    ELSE RAdd(RMul(sub[W[i][1]], Rat(W[i][2], 100)), WeightedSum(sub, W, i + 1))

\* mutant: every threshold is five points lower
ratingOfLenient(composite) ==
    IF RLe(R(75), composite) THEN "Excellent"
    ELSE IF RLe(R(60), composite) THEN "Good"
    ELSE IF RLe(R(40), composite) THEN "Fair"
    ELSE "Poor"

ratingOf(composite) ==
    IF RLe(R(80), composite) THEN "Excellent"
    ELSE IF RLe(R(65), composite) THEN "Good"
    ELSE IF RLe(R(45), composite) THEN "Fair"
    ELSE "Poor"

\* the sub-scores of hour h under the mode
subScores(h, mode) ==
    IF mode = "stargazing" THEN
        [cloud_cover |-> scoreCloudCover(R(OrDefault(h, "cloud_cover", 50))),
         weather_code |-> R(scoreWeatherCodeStargazing(h.weather_code)),
         temperature |-> scoreTempStargazing(R(h.temperature)),
         wind_speed |-> scoreWindStargazing(R(h.wind_speed)),
         humidity |-> scoreHumidityStargazing(R(h.humidity)),
         precipitation_probability |-> scorePrecip(R(h.precipitation_probability)),
         visibility |-> scoreVisibility(R(OrDefault(h, "visibility", 20000)))]
    ELSE IF mode = "dog_walking" THEN
        [temperature |-> scoreTempDogWalking(R(h.temperature)),
         feels_like |-> scoreTempDogWalking(R(h.feels_like)),
         pavement_temperature |->
             scorePavement(estimatePavementTemp(h.temperature, h.uv_index, h)),
         humidity |-> scoreHumidity(R(h.humidity)),
         uv_index |-> scoreUVDogWalking(R(h.uv_index)),
         wind_speed |-> scoreWindWalking(R(h.wind_speed)),
         precipitation_probability |-> scorePrecip(R(h.precipitation_probability)),
         weather_code |-> R(scoreWeatherCodeDogWalking(h.weather_code))]
    ELSE
        [temperature |->
             IF mode = "cycling" THEN scoreTempCycling(R(h.temperature))
             ELSE IF mode = "running" THEN scoreTempRunning(R(h.temperature))
             ELSE scoreTempWalking(R(h.temperature)),
         feels_like |->
             IF mode = "cycling" THEN scoreTempCycling(R(h.feels_like))
             ELSE IF mode = "running" THEN scoreTempRunning(R(h.feels_like))
             ELSE scoreTempWalking(R(h.feels_like)),
         humidity |-> scoreHumidity(R(h.humidity)),
         uv_index |-> scoreUV(R(h.uv_index)),
         wind_speed |->
             IF mode = "cycling" THEN scoreWindCycling(R(h.wind_speed))
             ELSE IF mode = "running" THEN scoreWindRunning(R(h.wind_speed))
             ELSE scoreWindWalking(R(h.wind_speed)),
         precipitation_probability |->
             IF mode = "cycling"
             THEN scorePrecipCycling(R(h.precipitation_probability))
             ELSE scorePrecip(R(h.precipitation_probability)),
         weather_code |->
             IF mode = "cycling" THEN R(scoreWeatherCodeCycling(h.weather_code))
             ELSE R(scoreWeatherCode(h.weather_code))]

weightsOf(mode) ==
    IF mode = "stargazing" THEN WEIGHTS_STARGAZING
    ELSE IF mode = "dog_walking" THEN WEIGHTS_DOG_WALKING
    ELSE WEIGHTS

\* the ScoredHour's score (in tenths) and rating; the other fields are h's
computeScore(h, mode) ==
    LET sub       == subScores(h, mode)
        weighted  == WeightedSum(sub, weightsOf(mode), 1)
        scaled    == RMul(weighted, h.daylight_factor)
        score10   == MathRound(RMul(scaled, R(10)))
    IN  [time |-> h.time, score |-> score10, rating |-> ratingOf(Rat(score10, 10))]

\* ------------------------------------------------------------------------
\* Forecast hour resolver and alternative-slot search
\* ------------------------------------------------------------------------
\* JavaScript null
Null == [null |-> TRUE]

\* forecast.daily.time.map((d, i) => ({date, sunrise, sunset}))
dailyListOf(forecast) ==
    [i \in 1..Len(forecast.daily.time) |->
        [date    |-> forecast.daily.time[i],
         sunrise |-> forecast.daily.sunrise[i],
         sunset  |-> forecast.daily.sunset[i]]]

\* h.cloud_cover?.[i] ?? dflt: the array, or the entry, may be absent
ArrayOrDefault(hourly, field, i, dflt) ==
    IF field \in DOMAIN hourly /\ i \in DOMAIN hourly[field]
    THEN hourly[field][i] ELSE dflt

\* the HourlyData built from index i with classification dl
hourDataOf(forecast, i, dl) ==
    LET h == forecast.hourly
    IN  [time |-> h.time[i],
         temperature |-> h.temperature_2m[i],
         humidity |-> h.relative_humidity_2m[i],
         feels_like |-> h.apparent_temperature[i],
         weather_code |-> h.weather_code[i],
         wind_speed |-> h.wind_speed_10m[i],
         uv_index |-> h.uv_index[i],
         precipitation_probability |-> h.precipitation_probability[i],
         cloud_cover |-> ArrayOrDefault(h, "cloud_cover", i, 50),
         visibility |-> ArrayOrDefault(h, "visibility", i, 20000),
         is_daylight |-> dl.is_daylight,
         daylight_factor |-> dl.daylight_factor]

\* first index whose hour key equals targetHour, or 0 (the code's -1)
RECURSIVE ExactIndex(_, _, _)
ExactIndex(times, targetHour, i) ==
    IF i > Len(times) THEN 0
    ELSE IF HourKey(times[i]) = targetHour THEN i
    ELSE ExactIndex(times, targetHour, i + 1)

\* first index of minimal |time - target|, or 0 for an empty series
RECURSIVE ClosestIndex(_, _, _, _, _)
ClosestIndex(times, targetMs, i, minDiff, idx) ==
    IF i > Len(times) THEN idx
    ELSE LET diff == Abs(getTime(times[i]) - targetMs)
         IN  IF idx = 0 \/ diff < minDiff
             THEN ClosestIndex(times, targetMs, i + 1, diff, i)
             ELSE ClosestIndex(times, targetMs, i + 1, minDiff, idx)

\* mutant: the match on the truncated hour is skipped
resolveIndexClosest(forecast, targetTime) ==
    ClosestIndex(forecast.hourly.time, getTime(targetTime), 1, 0, 0)

\* the index computeScoreForHour resolves, 0 when there is no data
resolveIndex(forecast, targetTime) ==
    LET targetMs   == getTime(targetTime)
        targetHour == HourKey(toISOString(targetMs))
        exact      == ExactIndex(forecast.hourly.time, targetHour, 1)
    IN  IF exact # 0 THEN exact
        ELSE ClosestIndex(forecast.hourly.time, targetMs, 1, 0, 0)

\* mutant: no data scores as the worst conditions
NeutralScoreWorst == 0 * 10

\* the neutral score returned when there is no data (50, in tenths)
NeutralScore == 50 * 10

computeScoreForHour(forecast, targetTime, mode) ==
    LET idx == resolveIndex(forecast, targetTime)
    IN  IF idx = 0 THEN NeutralScore
        ELSE LET t  == forecast.hourly.time[idx]
                 dl == IF mode = "stargazing"
                       THEN computeDarkness(t, dailyListOf(forecast))
                       ELSE computeDaylight(t, dailyListOf(forecast))
             IN  computeScore(hourDataOf(forecast, idx, dl), mode).score

windowMs == 4 * 60 * 60 * 1000

\* mutant: samples at or before the current time are not skipped
eligiblePastAllowed(forecast, targetTime, mode, now, i) ==
    LET t   == forecast.hourly.time[i]
        tMs == getTime(t)
        dl  == IF mode = "stargazing"
               THEN computeDarkness(t, dailyListOf(forecast))
               ELSE computeDaylight(t, dailyListOf(forecast))
    IN  /\ DateKey(t) = DateKey(targetTime)
        /\ ~(Abs(tMs - getTime(targetTime)) > windowMs)
        /\ ~(tMs = getTime(targetTime))
        /\ ~(mode # "stargazing" /\ ~dl.is_daylight)
        /\ ~(mode = "stargazing" /\ dl.is_daylight)

\* mutant: the daylight classification is not consulted
eligibleLitIgnored(forecast, targetTime, mode, now, i) ==
    LET t   == forecast.hourly.time[i]
        tMs == getTime(t)
    IN  /\ DateKey(t) = DateKey(targetTime)
        /\ ~(tMs <= now)
        /\ ~(Abs(tMs - getTime(targetTime)) > windowMs)
        /\ ~(tMs = getTime(targetTime))

\* whether the loop body reaches the scoring of sample i (no `continue`)
eligible(forecast, targetTime, mode, now, i) ==
    LET t   == forecast.hourly.time[i]
        tMs == getTime(t)
        dl  == IF mode = "stargazing"
               THEN computeDarkness(t, dailyListOf(forecast))
               ELSE computeDaylight(t, dailyListOf(forecast))
    IN  /\ DateKey(t) = DateKey(targetTime)
        /\ ~(tMs <= now)
        /\ ~(Abs(tMs - getTime(targetTime)) > windowMs)
        /\ ~(tMs = getTime(targetTime))
        /\ ~(mode # "stargazing" /\ ~dl.is_daylight)
        /\ ~(mode = "stargazing" /\ dl.is_daylight)

\* mutant: every mode is scored under computeDaylight
slotScoreByDaylight(forecast, mode, i) ==
    LET t  == forecast.hourly.time[i]
        dl == computeDaylight(t, dailyListOf(forecast))
    IN  computeScore(hourDataOf(forecast, i, dl), mode).score

\* the score of sample i as the loop computes it
slotScore(forecast, mode, i) ==
    LET t  == forecast.hourly.time[i]
        dl == IF mode = "stargazing"
              THEN computeDarkness(t, dailyListOf(forecast))
              ELSE computeDaylight(t, dailyListOf(forecast))
    IN  computeScore(hourDataOf(forecast, i, dl), mode).score

\* mutant: a later sample of equal score replaces the best so far
RECURSIVE bestFromLastWins(_, _, _, _, _, _)
bestFromLastWins(forecast, targetTime, mode, now, i, best) ==
    IF i > Len(forecast.hourly.time) THEN best
    ELSE IF ~eligible(forecast, targetTime, mode, now, i)
    THEN bestFromLastWins(forecast, targetTime, mode, now, i + 1, best)
    ELSE LET s == slotScore(forecast, mode, i)
         IN  IF best = Null \/ s >= best.score
             THEN bestFromLastWins(forecast, targetTime, mode, now, i + 1,
                                   [time |-> forecast.hourly.time[i], score |-> s])
             ELSE bestFromLastWins(forecast, targetTime, mode, now, i + 1, best)

RECURSIVE bestFrom(_, _, _, _, _, _)
bestFrom(forecast, targetTime, mode, now, i, best) ==
    IF i > Len(forecast.hourly.time) THEN best
    ELSE IF ~eligible(forecast, targetTime, mode, now, i)
    THEN bestFrom(forecast, targetTime, mode, now, i + 1, best)
    ELSE LET s == slotScore(forecast, mode, i)
         IN  IF best = Null \/ s > best.score
             THEN bestFrom(forecast, targetTime, mode, now, i + 1,
                           [time |-> forecast.hourly.time[i], score |-> s])
             ELSE bestFrom(forecast, targetTime, mode, now, i + 1, best)

\* now is Date.now() at the call
findBestAlternative(forecast, targetTime, mode, now) ==
    bestFrom(forecast, targetTime, mode, now, 1, Null)

\* ------------------------------------------------------------------------
\* Forecasts the provider can return (bounded input set)
\* ------------------------------------------------------------------------
\* one hour of the series, as the tests' makeHour builds it
Hour(t, temp, hum, feels, code, wind, uv, precip, cloud, vis) ==
    [time |-> t, temperature |-> temp, humidity |-> hum, feels_like |-> feels,
     weather_code |-> code, wind_speed |-> wind, uv_index |-> uv,
     precipitation_probability |-> precip, cloud_cover |-> cloud,
     visibility |-> vis]

\* the tests' makeForecast: parallel arrays from a sequence of hours
makeForecast(hours, daily) ==
    [hourly |->
        [time |-> [i \in DOMAIN hours |-> hours[i].time],
         temperature_2m |-> [i \in DOMAIN hours |-> hours[i].temperature],
         relative_humidity_2m |-> [i \in DOMAIN hours |-> hours[i].humidity],
         apparent_temperature |-> [i \in DOMAIN hours |-> hours[i].feels_like],
         weather_code |-> [i \in DOMAIN hours |-> hours[i].weather_code],
         wind_speed_10m |-> [i \in DOMAIN hours |-> hours[i].wind_speed],
         uv_index |-> [i \in DOMAIN hours |-> hours[i].uv_index],
         precipitation_probability |->
             [i \in DOMAIN hours |-> hours[i].precipitation_probability],
         cloud_cover |-> [i \in DOMAIN hours |-> hours[i].cloud_cover],
         visibility |-> [i \in DOMAIN hours |-> hours[i].visibility]],
     daily |->
        [time    |-> [i \in DOMAIN daily |-> daily[i].date],
         sunrise |-> [i \in DOMAIN daily |-> daily[i].sunrise],
         sunset  |-> [i \in DOMAIN daily |-> daily[i].sunset]]]

\* day 0: sunrise 06:00, sunset 12:15
DAILY == << [date |-> 0, sunrise |-> Iso(0, 6, 0), sunset |-> Iso(0, 12, 15)] >>

ClearHour(t) == Hour(t, 55, 40, 55, 0, 5, 2, 0, 10, 40000)
StormHour(t) == Hour(t, 90, 85, 90, 65, 35, 8, 100, 100, 1000)

EmptyForecast == makeForecast(<< >>, DAILY)

ClearForecast ==
    makeForecast(<< ClearHour(Iso(0, 11, 0)), ClearHour(Iso(0, 12, 0)),
                    ClearHour(Iso(0, 13, 0)), ClearHour(Iso(0, 14, 0)) >>, DAILY)

StormForecast ==
    makeForecast(<< StormHour(Iso(0, 11, 0)), StormHour(Iso(0, 12, 0)),
                    StormHour(Iso(0, 13, 0)), ClearHour(Iso(0, 14, 0)) >>, DAILY)

Forecasts == {EmptyForecast, ClearForecast, StormForecast}

\* ------------------------------------------------------------------------
\* The monitoring actor ScheduledRun and the worker's schedule endpoint
\* ------------------------------------------------------------------------
VARIABLES
    now,        \* Date.now(), in ms
    idIssued,   \* handleSchedule has drawn this actor's id (crypto.randomUUID)
    event,      \* the row of table `event`, or Null when the table is empty
    alarm,      \* the armed alarm: {} or {time}
    pc,         \* where alarm() stands: "idle", "fetching", "sending"
    frame,      \* the locals of the running alarm(), Null when idle
    reply,      \* the last response of handleStatus, Null before any
    sent,       \* notification dispatches that completed successfully
    attempts,   \* notification dispatches begun
    lastWake,   \* what the last completed alarm() did, Null before any
    response,   \* the last response of the worker's handleSchedule, Null before any
    fn          \* a call of a scoring function: its arguments and its result

vars == <<now, idIssued, event, alarm, pc, frame, reply, sent, attempts, lastWake,
          response, fn>>

\* the clock advances in steps of this size, or straight to the armed alarm
ClockStep == 30 * 60 * 1000
\* the clock takes at most MaxTicks steps from ClockStart
MaxTicks == 7
ClockStart == 10 * MsPerHour
MaxTime == ClockStart + MaxTicks * ClockStep

ScheduledTimes == {Iso(0, 11, 0), Iso(0, 12, 30), Iso(0, 13, 0)}
ScheduleModes  == {"running", "stargazing"}
\* env.RESEND_API_KEY, unset or set
ApiKeys        == {"", "re_key"}

OneHour    == 60 * 60 * 1000
TwoHours   == 2 * 60 * 60 * 1000
OneMinute  == 60 * 1000
AlarmEvery == 30 * 60 * 1000
\* the deterioration threshold, 15 points, in tenths
DropThreshold == 15 * 10

Min2(a, b) == IF a < b THEN a ELSE b
Max2(a, b) == IF a > b THEN a ELSE b

\* mutant: the floor at one minute from now is forgotten
firstAlarmNoFloor(eventTime, dateNow) ==
    Min2(dateNow + OneHour, eventTime - TwoHours)

\* Math.min(oneHourFromNow, Math.max(twoHoursBefore, Date.now() + 60 * 1000))
firstAlarm(eventTime, dateNow) ==
    Min2(dateNow + OneHour, Max2(eventTime - TwoHours, dateNow + OneMinute))

\* the alarm after the handler's last statement: armed at n + 30 min only when
\* that lies before the event
nextAlarm(n, eventTime, armed) ==
    IF n + AlarmEvery < eventTime THEN {n + AlarmEvery} ELSE armed

\* mutant: the event counts as passed only half an hour after its time
hasPassedLate(n, eventTime) == n > eventTime + AlarmEvery

\* the handler's test for an event that has passed
hasPassed(n, eventTime) == n > eventTime

\* mutant: the alert flag is not consulted
shouldAlertIgnoringFlag(ev, currentScore) ==
    /\ ev.initial_score - currentScore >= DropThreshold
    /\ ev.resend_api_key # ""

\* mutant: the credential is not consulted
shouldAlertNoKey(ev, currentScore) ==
    /\ ev.initial_score - currentScore >= DropThreshold
    /\ ev.alert_sent = 0

\* the condition under which alarm() dispatches the notification
shouldAlert(ev, currentScore) ==
    /\ ev.initial_score - currentScore >= DropThreshold
    /\ ev.alert_sent = 0
    /\ ev.resend_api_key # ""

\* UPDATE event SET alert_sent = 1: every row of the table, if any
markAlertSent(row) == IF row = Null THEN Null ELSE [row EXCEPT !.alert_sent = 1]

\* mutant: an id is reused, so the actor is initialized again
canInitializeAgain == TRUE

\* handleSchedule draws a fresh id for every request, so an actor receives
\* /initialize at most once
canInitialize == ~idIssued

\* no scoring function is being followed
NoCall == [op |-> "none", args |-> Null, result |-> Null]

\* the actor and the worker before any request
ActorInit ==
    /\ now = ClockStart
    /\ idIssued = FALSE
    /\ event = Null
    /\ alarm = {}
    /\ pc = "idle"
    /\ frame = Null
    /\ reply = Null
    /\ sent = 0
    /\ attempts = 0
    /\ lastWake = Null
    /\ response = Null

Init ==
    /\ ActorInit
    /\ fn = NoCall

\* POST /initialize on the actor: INSERT OR REPLACE of the row, then setAlarm
HandleInitialize(scheduledTime, mode, forecast, apiKey) ==
    /\ canInitialize
    /\ idIssued' = TRUE
    /\ event' = [scheduled_time |-> scheduledTime,
                 mode           |-> mode,
                 initial_score  |-> computeScoreForHour(forecast, scheduledTime, mode),
                 alert_sent     |-> 0,
                 resend_api_key |-> apiKey]
    /\ alarm' = {firstAlarm(getTime(scheduledTime), now)}
    /\ UNCHANGED <<now, pc, frame, reply, sent, attempts, lastWake, fn>>

\* the fields of the body of POST /api/schedule
BodyFields ==
    {"email", "mode", "scheduledTime", "durationMinutes", "lat", "lon", "tz",
     "locationName"}

\* a body carrying every field but those of absent; an absent field reads as
\* undefined
Body(scheduledTime, mode, absent) ==
    LET full == [email |-> "runner@example.com", mode |-> mode,
                 scheduledTime |-> scheduledTime, durationMinutes |-> 60,
                 lat |-> 40, lon |-> 116, tz |-> "UTC", locationName |-> "Park"]
    IN  [k \in BodyFields \ absent |-> full[k]]

\* at most one field is left out of a request
AbsentSets == {{}} \cup {{k} : k \in BodyFields}

\* !email || !scheduledTime || !lat || !lon || !tz
missingRequired(body) ==
    \/ "email" \notin DOMAIN body
    \/ "scheduledTime" \notin DOMAIN body
    \/ "lat" \notin DOMAIN body
    \/ "lon" \notin DOMAIN body
    \/ "tz" \notin DOMAIN body

\* the columns of table `event` declared NOT NULL without a default that the
\* body fills: the INSERT throws when one of them is bound to undefined
insertFails(body) ==
    \E k \in {"email", "mode", "scheduledTime", "durationMinutes", "lat", "lon",
               "tz", "locationName"} : k \notin DOMAIN body

\* what handleSchedule answers; absent notes the fields the request left out
Answer(status, body) == [status |-> status, absent |-> BodyFields \ DOMAIN body]

\* POST /api/schedule on the worker: validate, fetch the forecast, score the
\* slot, draw the actor's id and initialize the actor.  forecast = Null: the
\* fetch rejects.  Any exception ends in the catch block's 500
HandleSchedule(body, forecast, apiKey) ==
    /\ canInitialize
    /\ IF missingRequired(body)
       THEN /\ response' = Answer(400, body)
            /\ UNCHANGED <<now, idIssued, event, alarm, pc, frame, reply, sent,
                           attempts, lastWake, fn>>
       ELSE IF forecast = Null
       THEN /\ response' = Answer(500, body)
            /\ UNCHANGED <<now, idIssued, event, alarm, pc, frame, reply, sent,
                           attempts, lastWake, fn>>
       ELSE IF insertFails(body)
       THEN /\ idIssued' = TRUE
            /\ response' = Answer(500, body)
            /\ UNCHANGED <<now, event, alarm, pc, frame, reply, sent, attempts,
                           lastWake, fn>>
       ELSE /\ HandleInitialize(body.scheduledTime, body.mode, forecast, apiKey)
            /\ response' = Answer(200, body)

\* mutant: the alert flag is reported as it was at initialization
HandleStatusStale ==
    /\ reply' = IF event = Null
                THEN [status      |-> 404,
                      midWake     |-> (pc # "idle"),
                      afterExpiry |-> (lastWake # Null /\ lastWake.outcome = "expired")]
                ELSE [status        |-> 200,
                      scheduledTime |-> event.scheduled_time,
                      mode          |-> event.mode,
                      initialScore  |-> event.initial_score,
                      alertSent     |-> FALSE,
                      midWake       |-> (pc # "idle"),
                      afterExpiry   |-> (lastWake # Null /\ lastWake.outcome = "expired")]
    /\ UNCHANGED <<now, idIssued, event, alarm, pc, frame, sent, attempts, lastWake, response, fn>>

\* GET /status.  midWake and afterExpiry note when the query was served:
\* while alarm() awaits the network, and after an alarm() that found the
\* event passed
HandleStatus ==
    /\ reply' = IF event = Null
                THEN [status      |-> 404,
                      midWake     |-> (pc # "idle"),
                      afterExpiry |-> (lastWake # Null /\ lastWake.outcome = "expired")]
                ELSE [status        |-> 200,
                      scheduledTime |-> event.scheduled_time,
                      mode          |-> event.mode,
                      initialScore  |-> event.initial_score,
                      alertSent     |-> (event.alert_sent = 1),
                      midWake       |-> (pc # "idle"),
                      afterExpiry   |-> (lastWake # Null /\ lastWake.outcome = "expired")]
    /\ UNCHANGED <<now, idIssued, event, alarm, pc, frame, sent, attempts, lastWake, response, fn>>

\* the record of a completed alarm(): f its locals, row the table and armed
\* the alarm it leaves behind
WakeRecord(f, outcome, row, armed) ==
    [now         |-> f.now,
     eventTime   |-> f.eventTime,
     outcome     |-> outcome,
     key         |-> f.event.resend_api_key,
     alertBefore |-> f.event.alert_sent,
     alertAfter  |-> IF row = Null THEN 0 ELSE row.alert_sent,
     fetched     |-> f.fetched,
     crossed     |-> f.crossed,
     empty       |-> f.empty,
     dispatched  |-> f.dispatched,
     armed       |-> armed]

\* the locals of alarm() after its first statements
NewFrame(ev, dateNow) ==
    [event |-> ev, now |-> dateNow, eventTime |-> getTime(ev.scheduled_time),
     fetched |-> FALSE, crossed |-> FALSE, empty |-> FALSE, dispatched |-> FALSE]

\* alarm() up to its first await of the network: the armed alarm fires at or
\* after its time, one handler at a time
AlarmBegin ==
    /\ pc = "idle"
    /\ alarm # {}
    /\ \E t \in alarm : now >= t
    /\ IF event = Null
       THEN /\ alarm' = {}
            /\ UNCHANGED <<event, pc, frame, lastWake>>
       ELSE LET f == NewFrame(event, now)
            IN  IF hasPassed(f.now, f.eventTime)
                THEN /\ event' = Null
                     /\ alarm' = {}
                     /\ lastWake' = WakeRecord(f, "expired", Null, {})
                     /\ UNCHANGED <<pc, frame>>
                ELSE /\ pc' = "fetching"
                     /\ frame' = [f EXCEPT !.fetched = TRUE]
                     /\ alarm' = {}
                     /\ UNCHANGED <<event, lastWake>>
    /\ UNCHANGED <<now, idIssued, reply, sent, attempts, response, fn>>

\* mutant: the alert flag is set although the dispatch failed
FinishConsumesAlert(f, outcome, row) ==
    /\ event' = IF outcome = "send_failed" THEN markAlertSent(row) ELSE row
    /\ alarm' = nextAlarm(f.now, f.eventTime, alarm)
    /\ lastWake' = WakeRecord(f, outcome, event', alarm')
    /\ pc' = "idle"
    /\ frame' = Null

\* mutant: the rearming sits inside the try block, so a failure skips it
FinishRearmOnSuccess(f, outcome, row) ==
    /\ event' = row
    /\ alarm' = IF outcome \in {"checked", "sent"}
                THEN nextAlarm(f.now, f.eventTime, alarm)
                ELSE alarm
    /\ lastWake' = WakeRecord(f, outcome, row, alarm')
    /\ pc' = "idle"
    /\ frame' = Null

\* the handler's tail after the try/catch: rearm and return.  f: the locals,
\* row: the table as the handler leaves it
Finish(f, outcome, row) ==
    /\ event' = row
    /\ alarm' = nextAlarm(f.now, f.eventTime, alarm)
    /\ lastWake' = WakeRecord(f, outcome, row, alarm')
    /\ pc' = "idle"
    /\ frame' = Null

\* fetchForecast rejects: caught, logged
FetchFails ==
    /\ pc = "fetching"
    /\ Finish(frame, "fetch_failed", event)
    /\ UNCHANGED <<now, idIssued, reply, sent, attempts, response, fn>>

\* fetchForecast resolves: score the slot, and dispatch when it deteriorated
FetchReturns(forecast) ==
    /\ pc = "fetching"
    /\ LET currentScore == computeScoreForHour(forecast, frame.event.scheduled_time,
                                               frame.event.mode)
           f == [frame EXCEPT
                    !.crossed = (frame.event.initial_score - currentScore
                                     >= DropThreshold),
                    !.empty = (Len(forecast.hourly.time) = 0)]
       IN  IF shouldAlert(frame.event, currentScore)
           THEN /\ pc' = "sending"
                /\ frame' = [f EXCEPT !.dispatched = TRUE]
                /\ attempts' = attempts + 1
                /\ UNCHANGED <<event, alarm, lastWake>>
           ELSE /\ Finish(f, "checked", event)
                /\ UNCHANGED attempts
    /\ UNCHANGED <<now, idIssued, reply, sent, response, fn>>

\* sendDeteriorationEmail resolves: set the flag
SendReturns ==
    /\ pc = "sending"
    /\ Finish(frame, "sent", markAlertSent(event))
    /\ sent' = sent + 1
    /\ UNCHANGED <<now, idIssued, reply, attempts, response, fn>>

\* sendDeteriorationEmail rejects: caught, logged
SendFails ==
    /\ pc = "sending"
    /\ Finish(frame, "send_failed", event)
    /\ UNCHANGED <<now, idIssued, reply, sent, attempts, response, fn>>

\* time passes: one clock step, or straight to the armed alarm.  The network
\* calls of alarm() are bounded: they return within one step of the clock
Tick ==
    /\ pc = "idle"
    /\ \E t \in {now + ClockStep} \cup {a \in alarm : a > now} :
          /\ t <= MaxTime \/ t \in alarm
          /\ now' = t
    /\ UNCHANGED <<idIssued, event, alarm, pc, frame, reply, sent, attempts, lastWake, response, fn>>

Next ==
    \/ \E s \in ScheduledTimes, m \in ScheduleModes, a \in AbsentSets,
          f \in Forecasts \cup {Null}, k \in ApiKeys :
          HandleSchedule(Body(s, m, a), f, k)
    \/ HandleStatus
    \/ AlarmBegin
    \/ FetchFails
    \/ \E f \in Forecasts : FetchReturns(f)
    \/ SendReturns
    \/ SendFails
    \/ Tick

Spec == Init /\ [][Next]_vars

\* the runtime delivers an armed alarm and the network calls return; time
\* does not stop
FairSpec ==
    /\ Spec
    /\ WF_vars(Tick)
    /\ WF_vars(AlarmBegin)
    /\ WF_vars(FetchFails \/ \E f \in Forecasts : FetchReturns(f))
    /\ WF_vars(SendReturns \/ SendFails)

\* ------------------------------------------------------------------------
\* Calls of the scoring functions on bounded inputs
\* ------------------------------------------------------------------------
\* the hourly series has at most MaxLen samples
MaxLen == 6
SeriesStarts == {Iso(0, 16, 0), Iso(0, 19, 0)}
Conditions   == {"clear", "storm"}
CallTargets  == {Iso(0, 21, 0), Iso(0, 20, 45)}
CallModes    == {"running", "stargazing"}
\* Date.now() at the call: before every sample, or at the 20:00 sample
CallNows     == {getTime(Iso(0, 15, 30)), getTime(Iso(0, 20, 0))}

\* day 0: sunrise 06:00, sunset 19:30; no record for day 1
EVENING == << [date |-> 0, sunrise |-> Iso(0, 6, 0), sunset |-> Iso(0, 19, 30)] >>

\* the k-th hourly timestamp of a series that begins at start
HourAfter(start, k) == toISOString(getTime(start) + (k - 1) * MsPerHour)

\* consecutive hourly samples from start, the k-th under conds[k]
seriesForecast(start, conds) ==
    makeForecast([k \in 1..Len(conds) |->
                     IF conds[k] = "clear" THEN ClearHour(HourAfter(start, k))
                     ELSE StormHour(HourAfter(start, k))],
                 EVENING)

SeriesCalls ==
    {[kind |-> "series", start |-> s, conds |-> c, target |-> t, mode |-> m,
      now |-> n] :
        s \in SeriesStarts,
        c \in UNION {[1..len -> Conditions] : len \in 0..MaxLen},
        t \in CallTargets, m \in CallModes, n \in CallNows}

\* the hours classified: every quarter of an hour of day 0
LightHours == {Iso(0, h, m) : h \in 0..23, m \in {0, 15, 30, 45}}
Sunrises   == {Iso(0, 6, 0), Iso(0, 6, 10)}
Sunsets    == {Iso(0, 19, 30), Iso(0, 20, 30)}

\* the daily list of a call: the record of day 0, or only that of day 1
lightDaily(a) ==
    << [date |-> IF a.found THEN 0 ELSE 1, sunrise |-> a.sunrise,
        sunset |-> a.sunset] >>

LightCalls ==
    {[kind |-> "light", hour |-> h, sunrise |-> sr, sunset |-> ss, found |-> f] :
        h \in LightHours, sr \in Sunrises, ss \in Sunsets, f \in BOOLEAN}

Returned(op, result) == [fn EXCEPT !.op = op, !.result = result]

CallFindBestAlternative ==
    /\ fn.op = "pending" /\ fn.args.kind = "series"
    /\ fn' = Returned("findBestAlternative",
                       findBestAlternative(
                           seriesForecast(fn.args.start, fn.args.conds),
                           fn.args.target, fn.args.mode, fn.args.now))
    /\ UNCHANGED <<now, idIssued, event, alarm, pc, frame, reply, sent, attempts,
                   lastWake, response>>

CallComputeScoreForHour ==
    /\ fn.op = "pending" /\ fn.args.kind = "series"
    /\ fn' = Returned("computeScoreForHour",
                       computeScoreForHour(
                           seriesForecast(fn.args.start, fn.args.conds),
                           fn.args.target, fn.args.mode))
    /\ UNCHANGED <<now, idIssued, event, alarm, pc, frame, reply, sent, attempts,
                   lastWake, response>>

CallComputeDaylight ==
    /\ fn.op = "pending" /\ fn.args.kind = "light"
    /\ fn' = Returned("computeDaylight",
                       computeDaylight(fn.args.hour, lightDaily(fn.args)))
    /\ UNCHANGED <<now, idIssued, event, alarm, pc, frame, reply, sent, attempts,
                   lastWake, response>>

CallComputeDarkness ==
    /\ fn.op = "pending" /\ fn.args.kind = "light"
    /\ fn' = Returned("computeDarkness",
                       computeDarkness(fn.args.hour, lightDaily(fn.args)))
    /\ UNCHANGED <<now, idIssued, event, alarm, pc, frame, reply, sent, attempts,
                   lastWake, response>>

\* hour samples handed to computeScore: one value within and one or two
\* beyond the comfortable range of each metric, 999 an unmapped weather code
SampleTemps   == {-10, 55, 72}
SampleHums    == {40, 90}
SampleCodes   == {0, 65, 999}
SampleWinds   == {5, 28}
SampleUVs     == {2, 9}
SamplePrecips == {0, 35}
\* cloud cover and visibility: clear, overcast, or both absent from the sample
SampleSkies   == {"clear", "overcast", "absent"}
SampleFactors == {Rat(0, 1), Rat(5, 100), Rat(6, 10), Rat(1, 1)}
AllModes      == {"running", "walking", "cycling", "stargazing", "dog_walking"}

\* an HourlyData record
Sample(temp, hum, code, wind, uv, precip, sky, factor) ==
    LET base == [time |-> Iso(0, 12, 0), temperature |-> temp, humidity |-> hum,
                 feels_like |-> temp, weather_code |-> code, wind_speed |-> wind,
                 uv_index |-> uv, precipitation_probability |-> precip,
                 is_daylight |-> TRUE, daylight_factor |-> factor]
    IN  IF sky = "absent" THEN base
        ELSE IF sky = "clear"
        THEN base @@ [cloud_cover |-> 10, visibility |-> 40000]
        ELSE base @@ [cloud_cover |-> 100, visibility |-> 1000]

SampleCalls ==
    {[kind |-> "sample", mode |-> m,
      h |-> Sample(temp, hum, code, wind, uv, precip, sky, factor)] :
        m \in AllModes, temp \in SampleTemps, hum \in SampleHums,
        code \in SampleCodes, wind \in SampleWinds, uv \in SampleUVs,
        precip \in SamplePrecips, sky \in SampleSkies, factor \in SampleFactors}

CallComputeScore ==
    /\ fn.op = "pending" /\ fn.args.kind = "sample"
    /\ fn' = Returned("computeScore", computeScore(fn.args.h, fn.args.mode))
    /\ UNCHANGED <<now, idIssued, event, alarm, pc, frame, reply, sent, attempts,
                   lastWake, response>>

\* breakpoint tables: ascending inputs among InterpXs, outputs among InterpYs
InterpXs == {0, 4, 10}
InterpYs == {0, 30, 100}

\* the elements of a finite set of integers in ascending order
RECURSIVE Ascending(_)
Ascending(S) ==
    IF S = {} THEN << >>
    ELSE LET lo == CHOOSE x \in S : \A y \in S : x <= y
         IN  << lo >> \o Ascending(S \ {lo})

InterpTables ==
    UNION {{[i \in 1..Len(xs) |-> <<xs[i], ys[i]>>] :
               ys \in [1..Len(xs) -> InterpYs]} :
           xs \in {Ascending(X) : X \in (SUBSET InterpXs) \ {{}}}}

\* query values: the halves from -1 to 11
InterpValues == {Rat(k, 2) : k \in -2..22}

InterpCalls ==
    {[kind |-> "interp", value |-> v, bp |-> t] :
        v \in InterpValues, t \in InterpTables}

CallInterpolate ==
    /\ fn.op = "pending" /\ fn.args.kind = "interp"
    /\ fn' = Returned("interpolate", interpolate(fn.args.value, fn.args.bp))
    /\ UNCHANGED <<now, idIssued, event, alarm, pc, frame, reply, sent, attempts,
                   lastWake, response>>

\* mutant: computeScoreForHour scores the hour of the call, not of the target
callAgainByClock(n) ==
    IF fn.op = "findBestAlternative"
    THEN findBestAlternative(seriesForecast(fn.args.start, fn.args.conds),
                             fn.args.target, fn.args.mode, n)
    ELSE IF fn.op = "computeScoreForHour"
    THEN computeScoreForHour(seriesForecast(fn.args.start, fn.args.conds),
                             toISOString(n), fn.args.mode)
    ELSE IF fn.op = "computeDaylight"
    THEN computeDaylight(fn.args.hour, lightDaily(fn.args))
    ELSE IF fn.op = "computeDarkness"
    THEN computeDarkness(fn.args.hour, lightDaily(fn.args))
    ELSE IF fn.op = "computeScore"
    THEN computeScore(fn.args.h, fn.args.mode)
    ELSE interpolate(fn.args.value, fn.args.bp)

\* the function of fn called once more with the same arguments, Date.now()
\* being n at this call
callAgain(n) ==
    IF fn.op = "findBestAlternative"
    THEN findBestAlternative(seriesForecast(fn.args.start, fn.args.conds),
                             fn.args.target, fn.args.mode, n)
    ELSE IF fn.op = "computeScoreForHour"
    THEN computeScoreForHour(seriesForecast(fn.args.start, fn.args.conds),
                             fn.args.target, fn.args.mode)
    ELSE IF fn.op = "computeDaylight"
    THEN computeDaylight(fn.args.hour, lightDaily(fn.args))
    ELSE IF fn.op = "computeDarkness"
    THEN computeDarkness(fn.args.hour, lightDaily(fn.args))
    ELSE IF fn.op = "computeScore"
    THEN computeScore(fn.args.h, fn.args.mode)
    ELSE interpolate(fn.args.value, fn.args.bp)

\* a second call with the arguments of the first, at any of the call times
CallRepeat ==
    /\ fn.op \notin {"none", "pending"}
    /\ "again" \notin DOMAIN fn
    /\ \E n \in CallNows :
          fn' = [op |-> fn.op, args |-> fn.args, result |-> fn.result,
                 again |-> callAgain(n), againNow |-> n]
    /\ UNCHANGED <<now, idIssued, event, alarm, pc, frame, reply, sent, attempts,
                   lastWake, response>>

CallInit ==
    /\ ActorInit
    /\ fn \in {[op |-> "pending", args |-> a, result |-> Null] :
                  a \in SeriesCalls \cup LightCalls \cup SampleCalls
                            \cup InterpCalls}

CallNext ==
    \/ CallFindBestAlternative
    \/ CallComputeScoreForHour
    \/ CallComputeDaylight
    \/ CallComputeDarkness
    \/ CallComputeScore
    \/ CallInterpolate
    \/ CallRepeat

CallSpec == CallInit /\ [][CallNext]_vars

\* ------------------------------------------------------------------------
\* Properties of the monitoring actor
\* ------------------------------------------------------------------------
Woke == lastWake # Null
Checked == Woke /\ lastWake.outcome # "expired"

\* C1: whatever the sequence of wakes after the initialization, at most one
\* deterioration notification dispatch completes successfully, even when the
\* drop stays at 15 points or more on consecutive wakes.
C1_AtMostOneDispatch == sent <= 1

\* a wake after the successful dispatch saw the threshold crossed again
C1_Witness ==
    /\ sent = 1
    /\ Woke /\ lastWake.outcome = "checked"
    /\ lastWake.crossed /\ lastWake.alertBefore = 1

\* C2: with armed alarms firing and network calls returning, every
\* initialized event is eventually terminated: its record is eventually
\* deleted.
C2_EventuallyTerminated == [](event # Null => <>(event = Null))

\* C3: while the event is monitored the alert flag only changes from cleared
\* to set; no initialize, status query or wake clears it again.
C3_AlertFlagMonotone ==
    [][(event # Null /\ event' # Null /\ event'.alert_sent # event.alert_sent)
          => (event.alert_sent = 0 /\ event'.alert_sent = 1)]_vars

\* the flag is set and a status query reported it
C3_Witness ==
    /\ event # Null /\ event.alert_sent = 1
    /\ reply # Null /\ reply.status = 200 /\ reply.alertSent

\* C4: a wake at a time later than the scheduled time deletes the record,
\* starts no forecast fetch and no dispatch, and arms no alarm; from then on
\* nothing is stored or armed and every status query answers not-found.
C4_ExpiredWakeTerminates ==
    /\ [][(AlarmBegin /\ event # Null /\ now > getTime(event.scheduled_time))
             => /\ event' = Null /\ alarm' = {} /\ pc' = "idle"
                /\ attempts' = attempts /\ sent' = sent
                /\ lastWake'.outcome = "expired" /\ ~lastWake'.fetched]_vars
    /\ []((Woke /\ lastWake.outcome = "expired")
             => (event = Null /\ alarm = {} /\ pc = "idle"))
    /\ [][(HandleStatus /\ Woke /\ lastWake.outcome = "expired")
             => reply'.status = 404]_vars

\* a status query served after the terminal wake answered not-found
C4_Witness ==
    /\ Woke /\ lastWake.outcome = "expired"
    /\ reply # Null /\ reply.afterExpiry /\ reply.status = 404

\* C5: every wake at which the scheduled time has not passed
\* (now <= scheduledTime) ends with the alarm armed at now + 30 minutes.
C5_RearmedUntilPassed ==
    (Woke /\ lastWake.now <= lastWake.eventTime)
        => lastWake.armed = {lastWake.now + AlarmEvery}

\* C6: initialize stores the event with the alert flag cleared and arms the
\* first wake at min(now + 1h, max(now + 1min, scheduledTime - 2h)), which is
\* later than now and at most now + 1h, also for a scheduled time in the past.
C6_FirstAlarm ==
    [][(event = Null /\ event' # Null)
          => /\ event' # Null /\ event'.alert_sent = 0
             /\ alarm' = {Min2(now + OneHour,
                               Max2(now + OneMinute,
                                    getTime(event'.scheduled_time) - TwoHours))}
             /\ \A t \in alarm' : t > now /\ t <= now + OneHour]_vars

\* just initialized with a scheduled time already in the past
C6_Witness ==
    /\ idIssued /\ ~Woke /\ event # Null
    /\ getTime(event.scheduled_time) < now
    /\ alarm = {now + OneMinute}

\* C7: a wake whose forecast fetch or dispatch failed completes normally and
\* leaves the alarm exactly as a successful check at the same now and
\* scheduled time does: what is armed depends on those two alone.
C7_FailureStillRearms ==
    Checked =>
        lastWake.armed = IF lastWake.now + AlarmEvery < lastWake.eventTime
                         THEN {lastWake.now + AlarmEvery} ELSE {}

\* a wake whose dispatch failed armed the next alarm
C7_Witness ==
    /\ Woke /\ lastWake.outcome = "send_failed"
    /\ lastWake.armed = {lastWake.now + AlarmEvery}

\* C8: a wake dispatches only when the drop is at least 15 points, the alert
\* flag is cleared and the credential is non-empty; a wake that does not
\* dispatch leaves the alert flag as it found it.
C8_DispatchOnlyWhenDue ==
    /\ (pc = "sending")
          => /\ frame.crossed
             /\ frame.event.alert_sent = 0
             /\ frame.event.resend_api_key # ""
    /\ (Woke /\ lastWake.dispatched)
          => /\ lastWake.crossed
             /\ lastWake.alertBefore = 0
             /\ lastWake.key # ""
    /\ (Checked /\ ~lastWake.dispatched)
          => lastWake.alertAfter = lastWake.alertBefore

\* the threshold was crossed but no credential is configured: no dispatch
C8_Witness ==
    /\ Woke /\ lastWake.outcome = "checked"
    /\ lastWake.crossed /\ lastWake.alertBefore = 0 /\ lastWake.key = ""
    /\ ~lastWake.dispatched

\* C9: a wake whose fetched series is empty treats the 50 as "no data": it
\* never dispatches a notification and never sets the alert flag.
C9_EmptySeriesNeverAlerts ==
    /\ (frame # Null /\ frame.empty) => ~frame.dispatched
    /\ (Woke /\ lastWake.empty)
          => (~lastWake.dispatched /\ lastWake.alertAfter = lastWake.alertBefore)

\* C10 as claimed: no initialize and no status query takes effect while a
\* wake is between reading the record and arming the next alarm, and the wake
\* writes the flag onto the record it read.
C10_FullySerialized ==
    /\ [][(HandleStatus \/ (event = Null /\ event' # Null)) => pc = "idle"]_vars
    /\ [](pc # "idle" => event = frame.event)

\* C10 as amended: initialize never falls inside a wake and the stored record
\* stays the one the wake read, so the flag is written onto that record; a
\* status query can be served while the wake awaits the network, and then
\* reports the record as the wake read it.
C10_WakeOwnsRecord ==
    /\ [][(event = Null /\ event' # Null) => pc = "idle"]_vars
    /\ [](pc # "idle" => event = frame.event)
    /\ [][(event # Null /\ event' # Null /\ event' # event)
             => (pc = "sending" /\ event' = [frame.event EXCEPT !.alert_sent = 1])]_vars
    /\ [][(HandleStatus /\ pc # "idle")
             => /\ reply'.status = 200
                /\ reply'.alertSent = (frame.event.alert_sent = 1)]_vars

\* a status query was served inside the wake that then set the flag
C10_Witness ==
    /\ reply # Null /\ reply.midWake /\ reply.status = 200 /\ ~reply.alertSent
    /\ Woke /\ lastWake.outcome = "sent"
    /\ event # Null /\ event.alert_sent = 1

\* C11: a status query answers with the fields of the record stored at that
\* moment, alertSent being true exactly when the alert flag is set, and answers
\* not-found when no record is stored: before the initialization and after
\* the deletion by an expired wake.
C11_StatusReflectsRecord ==
    [][HandleStatus
          => IF event = Null
             THEN reply'.status = 404
             ELSE /\ reply'.status = 200
                  /\ reply'.scheduledTime = event.scheduled_time
                  /\ reply'.mode = event.mode
                  /\ reply'.initialScore = event.initial_score
                  /\ reply'.alertSent = (event.alert_sent = 1)]_vars

\* a query served between wakes, after a wake that dispatched: the stored
\* fields with the flag set
C11_Witness ==
    /\ Woke /\ lastWake.outcome = "sent" /\ pc = "idle"
    /\ event # Null
    /\ reply # Null /\ reply.status = 200 /\ ~reply.midWake
    /\ reply.alertSent
    /\ reply.initialScore = event.initial_score
    /\ reply.scheduledTime = event.scheduled_time

\* C12: a schedule request that leaves out a required field (contact, mode,
\* scheduled time, duration, latitude, longitude, timezone) is answered with
\* a client error, and no record is stored and no alarm armed for it.
C12_RequiredFields ==
    {"email", "mode", "scheduledTime", "durationMinutes", "lat", "lon", "tz"}

C12_MissingFieldRejected ==
    (response # Null /\ response.absent \cap C12_RequiredFields # {})
        => /\ response.status = 400
           /\ event = Null
           /\ alarm = {}

\* ------------------------------------------------------------------------
\* Properties of the scoring functions
\* ------------------------------------------------------------------------
\* the forecast of the call in fn
CallForecast == seriesForecast(fn.args.start, fn.args.conds)
CallTimes == CallForecast.hourly.time

\* the lit flag of sample i under the classifier of the mode
SlotLit(i) ==
    IF fn.args.mode = "stargazing"
    THEN computeDarkness(CallTimes[i], EVENING).is_daylight
    ELSE computeDaylight(CallTimes[i], EVENING).is_daylight

\* sample i is an eligible alternative for the call in fn
IsEligibleSlot(i) ==
    LET t == CallTimes[i]
    IN  /\ t.d = fn.args.target.d
        /\ Abs(getTime(t) - getTime(fn.args.target)) <= 4 * MsPerHour
        /\ getTime(t) > fn.args.now
        /\ getTime(t) # getTime(fn.args.target)
        /\ SlotLit(i) = (fn.args.mode # "stargazing")

FoundAlternative == fn.op = "findBestAlternative" /\ fn.result # Null

\* C13: a slot returned by findBestAlternative is a sample of the series on the
\* calendar date of the target, at most 4 hours from the target, strictly
\* later than the current time, not the target instant, and lit for the
\* non-stargazing modes (computeDaylight), not lit for stargazing
\* (computeDarkness).
C13_ReturnedSlotEligible ==
    FoundAlternative
        => \E i \in DOMAIN CallTimes :
              CallTimes[i] = fn.result.time /\ IsEligibleSlot(i)

\* a stargazing search at 20:00 over 19:00..00:00: the samples at 19:00 and
\* 20:00 are not in the future, 21:00 is the target, 00:00 is the next day
C13_Witness ==
    /\ FoundAlternative
    /\ fn.args.mode = "stargazing"
    /\ fn.args.start = Iso(0, 19, 0) /\ Len(fn.args.conds) = 6
    /\ fn.args.target = Iso(0, 21, 0)
    /\ fn.args.now = getTime(Iso(0, 20, 0))
    /\ fn.result.time \in {Iso(0, 22, 0), Iso(0, 23, 0)}

\* the composite score of sample i under the mode of the call
ModeScore(i) ==
    LET dl == IF fn.args.mode = "stargazing"
              THEN computeDarkness(CallTimes[i], EVENING)
              ELSE computeDaylight(CallTimes[i], EVENING)
    IN  computeScore(hourDataOf(CallForecast, i, dl), fn.args.mode).score

EligibleSlots == {i \in DOMAIN CallTimes : IsEligibleSlot(i)}

\* C14: the slot findBestAlternative returns has the maximal composite score
\* among the eligible slots, and among the eligible slots of that score it is
\* the first in series order.
C14_FirstOfBest ==
    FoundAlternative
        => \E i \in EligibleSlots :
              /\ CallTimes[i] = fn.result.time
              /\ \A j \in EligibleSlots : ModeScore(j) <= ModeScore(i)
              /\ \A j \in EligibleSlots : ModeScore(j) = ModeScore(i) => i <= j

\* two eligible slots share the maximum and the earlier one is returned
C14_Witness ==
    /\ FoundAlternative
    /\ \E i, j \in EligibleSlots :
          /\ i < j
          /\ CallTimes[i] = fn.result.time
          /\ ModeScore(j) = ModeScore(i)
          /\ \E k \in EligibleSlots : ModeScore(k) < ModeScore(i)

\* C15: findBestAlternative returns none exactly when the series has no
\* eligible slot, and a slot whenever it has one.
C15_NoneIffNoEligible ==
    fn.op = "findBestAlternative" => (fn.result = Null <=> EligibleSlots = {})

\* a stargazing search before nightfall over the lit samples 16:00..19:00
C15_Witness ==
    /\ fn.op = "findBestAlternative" /\ fn.result = Null
    /\ fn.args.mode = "stargazing"
    /\ fn.args.start = Iso(0, 16, 0) /\ Len(fn.args.conds) = 4
    /\ fn.args.now = getTime(Iso(0, 15, 30))

\* the score of the originally scheduled hour under the mode and forecast of
\* the call
OriginalScore == computeScoreForHour(CallForecast, fn.args.target, fn.args.mode)

\* C16 as stated: every alternative slot returned scores strictly higher
\* than the originally scheduled hour under the same mode and forecast.
C16_BeatsOriginal ==
    FoundAlternative => fn.result.score > OriginalScore

\* C16: an alternative slot returned carries the composite score of its own
\* sample under the same mode and forecast, and no eligible slot scores
\* higher; it is not compared with the originally scheduled hour.
C16_BestOfEligible ==
    FoundAlternative
        => /\ \E i \in DOMAIN CallTimes :
                 CallTimes[i] = fn.result.time /\ fn.result.score = ModeScore(i)
           /\ \A j \in EligibleSlots : ModeScore(j) <= fn.result.score

\* the alternative returned scores lower than the originally scheduled hour
C16_Witness ==
    /\ FoundAlternative
    /\ fn.result.score < OriginalScore

\* the samples in the hour of the target, and the distance of sample i
SameHourSlots ==
    {i \in DOMAIN CallTimes :
        CallTimes[i].d = fn.args.target.d /\ CallTimes[i].h = fn.args.target.h}
Distance(i) == Abs(getTime(CallTimes[i]) - getTime(fn.args.target))

ScoredHour == fn.op = "computeScoreForHour" /\ Len(fn.args.conds) > 0

\* C17: on a non-empty series computeScoreForHour scores the first sample
\* whose timestamp truncated to the hour equals the truncated target, and when
\* there is none a sample at minimal absolute distance from the target.
C17_ExactThenClosest ==
    ScoredHour
        => IF SameHourSlots # {}
           THEN \E i \in SameHourSlots :
                   /\ \A j \in SameHourSlots : i <= j
                   /\ fn.result = ModeScore(i)
           ELSE \E i \in DOMAIN CallTimes :
                   /\ \A j \in DOMAIN CallTimes : Distance(i) <= Distance(j)
                   /\ fn.result = ModeScore(i)

\* no sample in the hour of the target: the last sample, the closest, is
\* scored, and the first sample scores otherwise
C17_Witness ==
    /\ ScoredHour /\ SameHourSlots = {}
    /\ Len(fn.args.conds) = 4
    /\ fn.result = ModeScore(4)
    /\ fn.result # ModeScore(1)

\* C18: on a series without samples computeScoreForHour returns exactly 50,
\* whatever the mode and the target.
C18_EmptySeriesNeutral ==
    (fn.op = "computeScoreForHour" /\ Len(fn.args.conds) = 0)
        => fn.result = 50 * 10

\* the empty series scored for stargazing at a target off the hour
C18_Witness ==
    /\ fn.op = "computeScoreForHour" /\ Len(fn.args.conds) = 0
    /\ fn.args.mode = "stargazing" /\ fn.args.target = Iso(0, 20, 45)
    /\ fn.result = 50 * 10

\* a classification of an hour of a day whose record is found
Classified(op) == fn.op = op /\ fn.args.found

\* C19: for an hour equal to the sunrise instant of its day computeDaylight
\* returns lit with multiplier 0.6 and computeDarkness returns lit with
\* multiplier 0.3.
C19_SunriseInstant ==
    /\ (Classified("computeDaylight") /\ fn.args.hour = fn.args.sunrise)
           => fn.result = [is_daylight |-> TRUE, daylight_factor |-> Rat(6, 10)]
    /\ (Classified("computeDarkness") /\ fn.args.hour = fn.args.sunrise)
           => fn.result = [is_daylight |-> TRUE, daylight_factor |-> Rat(3, 10)]

\* C20: with the day record found computeDaylight returns lit exactly for the
\* hours from sunrise to sunset; the multiplier is 0.6 for every hour at most
\* 1800 seconds from sunrise or from sunset, on either side, 1.0 for the
\* other hours inside the span and 0.3 for the other hours outside it.
C20_ClosedTwilightBand ==
    Classified("computeDaylight")
        => LET ht     == getTime(fn.args.hour)
               sr     == getTime(fn.args.sunrise)
               ss     == getTime(fn.args.sunset)
               inside == ht >= sr /\ ht <= ss
               near   == Abs(ht - sr) <= 1800 * 1000 \/ Abs(ht - ss) <= 1800 * 1000
           IN  /\ fn.result.is_daylight = inside
               /\ fn.result.daylight_factor =
                      IF near THEN Rat(6, 10)
                      ELSE IF inside THEN Rat(1, 1) ELSE Rat(3, 10)

\* C21: with the day record found computeDarkness returns not lit with
\* multiplier 1.0 for an hour more than 30 minutes outside the span from
\* sunrise to sunset, not lit with 0.3 for an hour outside the span within 30
\* minutes of it, lit with 0.3 for an hour inside the span within 30 minutes
\* of sunrise or sunset, and lit with 0.05 for the other hours inside.
C21_DarknessBands ==
    Classified("computeDarkness")
        => LET ht     == getTime(fn.args.hour)
               sr     == getTime(fn.args.sunrise)
               ss     == getTime(fn.args.sunset)
               inside == ht >= sr /\ ht <= ss
               near   == Abs(ht - sr) <= 30 * MsPerMinute
                         \/ Abs(ht - ss) <= 30 * MsPerMinute
           IN  fn.result =
                  IF ~inside /\ ~near
                  THEN [is_daylight |-> FALSE, daylight_factor |-> Rat(1, 1)]
                  ELSE IF ~inside
                  THEN [is_daylight |-> FALSE, daylight_factor |-> Rat(3, 10)]
                  ELSE IF near
                  THEN [is_daylight |-> TRUE, daylight_factor |-> Rat(3, 10)]
                  ELSE [is_daylight |-> TRUE, daylight_factor |-> Rat(5, 100)]

\* C22: for an hour whose date has no record in the sunrise/sunset table
\* computeDaylight returns lit with multiplier 1.0 and computeDarkness
\* returns not lit with multiplier 0.05, whatever the hour and the table.
C22_MissingDayDefaults ==
    /\ (fn.op = "computeDaylight" /\ ~fn.args.found)
           => fn.result = [is_daylight |-> TRUE, daylight_factor |-> Rat(1, 1)]
    /\ (fn.op = "computeDarkness" /\ ~fn.args.found)
           => fn.result = [is_daylight |-> FALSE, daylight_factor |-> Rat(5, 100)]

\* midday classified by computeDarkness against a table that holds only
\* another day
C22_Witness ==
    /\ fn.op = "computeDarkness" /\ ~fn.args.found
    /\ fn.args.hour = Iso(0, 12, 0)
    /\ fn.result = [is_daylight |-> FALSE, daylight_factor |-> Rat(5, 100)]

\* the sub-scores of the sample of the call in fn
CallSubScores == subScores(fn.args.h, fn.args.mode)

RECURSIVE SumOfWeights(_, _)
SumOfWeights(W, i) == IF i > Len(W) THEN 0 ELSE W[i][2] + SumOfWeights(W, i + 1)

\* C23: for every mode and every hour sample with a daylight multiplier in
\* [0, 1], every sub-score of computeScore and the composite score lie in
\* [0, 100]; the weights of the mode sum to 1.0 and an unmapped weather code
\* scores 50.
C23_ScoresInRange ==
    fn.op = "computeScore"
        => /\ \A k \in DOMAIN CallSubScores :
                 RLe(R(0), CallSubScores[k]) /\ RLe(CallSubScores[k], R(100))
           /\ fn.result.score >= 0 /\ fn.result.score <= 100 * 10
           /\ SumOfWeights(weightsOf(fn.args.mode), 1) = 100
           /\ fn.args.h.weather_code = 999 => CallSubScores.weather_code = R(50)

\* a sample with an unmapped weather code and a temperature inside a curve
\* segment, scored at full multiplier
C23_Witness ==
    /\ fn.op = "computeScore"
    /\ fn.args.h.weather_code = 999 /\ fn.args.h.temperature = 72
    /\ fn.args.h.daylight_factor = Rat(1, 1)
    /\ CallSubScores.weather_code = R(50)
    /\ fn.result.score > 0 /\ fn.result.score < 100 * 10

\* C24: the rating computeScore returns depends on the returned composite
\* score alone: Excellent from 80, Good from 65, Fair from 45, Poor below.
C24_RatingFromScore ==
    fn.op = "computeScore"
        => fn.result.rating =
              IF fn.result.score >= 80 * 10 THEN "Excellent"
              ELSE IF fn.result.score >= 65 * 10 THEN "Good"
              ELSE IF fn.result.score >= 45 * 10 THEN "Fair"
              ELSE "Poor"

\* a composite between 60 and 65 is rated Fair
C24_Witness ==
    /\ fn.op = "computeScore"
    /\ fn.result.score >= 60 * 10 /\ fn.result.score < 65 * 10
    /\ fn.result.rating = "Fair"

\* C26: on a breakpoint table with ascending inputs interpolate returns the
\* first output for a value at or below the first input and the last output
\* for a value at or above the last input; for a value within a segment
\* (x0, y0), (x1, y1) it returns y0 + (x - x0) / (x1 - x0) * (y1 - y0), which
\* lies between y0 and y1.
C26_InterpolateLaw ==
    fn.op = "interpolate"
        => LET v  == fn.args.value
               bp == fn.args.bp
               n  == Len(bp)
               r  == fn.result
           IN  /\ RLe(v, R(bp[1][1])) => r = R(bp[1][2])
               /\ RLe(R(bp[n][1]), v) => r = R(bp[n][2])
               /\ \A i \in 1..(n - 1) :
                     (RLe(R(bp[i][1]), v) /\ RLe(v, R(bp[i + 1][1])))
                        => /\ r = RAdd(R(bp[i][2]),
                                       RMul(RDiv(RSub(v, R(bp[i][1])),
                                                 R(bp[i + 1][1] - bp[i][1])),
                                            R(bp[i + 1][2] - bp[i][2])))
                           /\ RLe(RMin(R(bp[i][2]), R(bp[i + 1][2])), r)
                           /\ RLe(r, RMax(R(bp[i][2]), R(bp[i + 1][2])))

\* 7 on the table (0, 0), (4, 30), (10, 100): halfway up the second segment
C26_Witness ==
    /\ fn.op = "interpolate"
    /\ fn.args.bp = << <<0, 0>>, <<4, 30>>, <<10, 100>> >>
    /\ fn.args.value = Rat(7, 1)
    /\ fn.result = Rat(65, 1)

\* the function of fn has been called a second time
Repeated == fn.op \notin {"none", "pending"} /\ "again" \in DOMAIN fn

C27_FailedDispatchKeepsAlert ==
    /\ (Woke /\ lastWake.outcome = "send_failed")
          => lastWake.alertBefore = 0 /\ lastWake.alertAfter = 0
    /\ (Woke /\ lastWake.crossed /\ lastWake.key # "" /\ lastWake.alertBefore = 0)
          => lastWake.dispatched
    /\ (Woke /\ lastWake.alertBefore = 0 /\ lastWake.alertAfter = 1)
          => lastWake.outcome = "sent"
    /\ (event # Null /\ event.alert_sent = 1) => sent = 1
    /\ (event # Null /\ event.alert_sent = 0) => sent = 0

\* the first dispatch failed, and a later wake dispatched again and set the
\* flag
C27_Witness ==
    /\ attempts = 2 /\ sent = 1
    /\ Woke /\ lastWake.outcome = "sent" /\ lastWake.alertBefore = 0
    /\ event # Null /\ event.alert_sent = 1

\* ------------------------------------------------------------------------
\* Relations between the scoring functions
\* ------------------------------------------------------------------------
\* C28: the slot findBestAlternative returns is never the sample that
\* computeScoreForHour resolves for the same target, also for a target that
\* is not the instant of a sample.
C28_AlternativeIsAnotherSample ==
    FoundAlternative
        => fn.result.time
              # CallTimes[resolveIndex(CallForecast, fn.args.target)]

\* C29: for an hour whose day record is found computeDaylight and
\* computeDarkness return the same lit flag.
C29_SameLitFlag ==
    /\ Classified("computeDaylight")
          => fn.result.is_daylight
                = computeDarkness(fn.args.hour, lightDaily(fn.args)).is_daylight
    /\ Classified("computeDarkness")
          => fn.result.is_daylight
                = computeDaylight(fn.args.hour, lightDaily(fn.args)).is_daylight

====
